---------------------------- MODULE Spec2Model ----------------------------
(***************************************************************************)
(* Model of src/src/App.js: the robot monitoring dashboard component.      *)
(*                                                                         *)
(* The component holds two state cells (robots, filter), starts a one-shot *)
(* snapshot fetch and a WebSocket with a timer-driven reconnect in two     *)
(* mount effects, and renders a map and a table from the filtered list.    *)
(* Handlers run to completion, one event at a time (browser event loop).   *)
(*                                                                         *)
(* A robot is modelled by the fields the control flow reads: id, status,   *)
(* battery and location.  cpu, ram and last_updated are only interpolated  *)
(* into the output and never fault, so they are left out.  A location is   *)
(* modelled by whether it is an array and by the typeof of its elements.   *)
(***************************************************************************)
EXTENDS Integers, Sequences, FiniteSets, TLC

VARIABLES
    phase,          \* "initial" (rendered, effects not run), "mounted", "unmounted"
    renderFault,    \* a render of the component threw (React then unmounts the tree)
    robots,         \* useState([]) cell, line 9
    filter,         \* useState("all") cell, line 10
    fetchPc,        \* position of fetchRobots: "idle", "awaitFetch", "awaitJson", "done", "failed"
    response,       \* body text response.json() has read, NoResponse before that
    fetchRequests,  \* number of fetch() calls issued
    sockets,        \* every WebSocket object created so far, in creation order
    socket,         \* the effect's `socket` variable: index into sockets, 0 = undefined
    dispatching,    \* socket whose close task has fired error and still has to fire close, 0 = none
    timers,         \* pending setTimeout(connectWebSocket, 5000) registrations, in order
    alerts,         \* number of alert() dialogs raised, per call site
    uncaught,       \* an exception has left a handler uncaught (reported by the browser)
    lastPayload,    \* history: payload of the last successful snapshot / well-formed message processed
    installOrder    \* history: sources of processed payloads, in order of first occurrence

vars == <<phase, renderFault, robots, filter, fetchPc, response, fetchRequests,
          sockets, socket, dispatching, timers, alerts, uncaught,
          lastPayload, installOrder>>

---------------------------------------------------------------------------
(* Bounds *)

\* Cap on the number of WebSocket objects created (reconnection itself is unbounded).
MaxConns == 3
\* Longest fleet drawn as an input of the presentation functions.
MaxLen == 2

---------------------------------------------------------------------------
(* Data *)

\* The delay passed to setTimeout, in milliseconds.
ReconnectDelay == 5000

\* The battery threshold of the low-battery filter and of the orange color.
LowBattery == 20

LocOk   == [isArray |-> TRUE,  elems |-> <<"number", "number">>]   \* [1, 2]
LocNull == [isArray |-> FALSE, elems |-> <<>>]                     \* null / absent
LocOne  == [isArray |-> TRUE,  elems |-> <<"number">>]             \* [1]
LocStr  == [isArray |-> TRUE,  elems |-> <<"string", "string">>]   \* ["a", "b"]
LocLong == [isArray |-> TRUE,  elems |-> <<"number", "number", "number">>]  \* [1, 2, 3]

Robot(i, s, b, l) == [id |-> i, status |-> s, battery |-> b, location |-> l]

\* Payloads the backend sends in the behavioural specification.
Payloads ==
    { <<>>,
      << Robot("r1", "Online", 15, LocOk) >>,
      << Robot("r1", "Offline", 15, LocOk) >>,
      << Robot("r2", "Online", 80, LocLong), Robot("r3", "Offline", 5, LocNull) >> }

\* A text received from the network: well-formed JSON of a payload, or not JSON.
Malformed == [kind |-> "garbage", value |-> <<>>]
Json(p) == [kind |-> "json", value |-> p]
Texts == { Json(p) : p \in Payloads } \cup { Malformed }

\* The value of `response` while no response has been received.
NoResponse == [kind |-> "none", value |-> <<>>]

FilterModes == {"all", "online", "offline", "low-battery"}

---------------------------------------------------------------------------
(* Presentation: pure functions of (robots, filter) *)

\* A mutation of filterCallback: the low-battery threshold is inclusive.
filterCallback_Inclusive(mode, robot) ==
    IF mode = "all" THEN TRUE
    ELSE IF mode = "online" THEN robot.status = "Online"
    ELSE IF mode = "offline" THEN robot.status = "Offline"
    ELSE IF mode = "low-battery" THEN robot.battery <= LowBattery
    ELSE TRUE

\* A mutation of filterCallback: the low-battery mode keeps online robots only.
filterCallback_LowOnline(mode, robot) ==
    IF mode = "all" THEN TRUE
    ELSE IF mode = "online" THEN robot.status = "Online"
    ELSE IF mode = "offline" THEN robot.status = "Offline"
    ELSE IF mode = "low-battery"
         THEN robot.battery < LowBattery /\ robot.status = "Online"
    ELSE TRUE

\* The callback of robots.filter, lines 60-67.
filterCallback(mode, robot) ==
    IF mode = "all" THEN TRUE
    ELSE IF mode = "online" THEN robot.status = "Online"
    ELSE IF mode = "offline" THEN robot.status = "Offline"
    ELSE IF mode = "low-battery" THEN robot.battery < LowBattery
    ELSE TRUE

\* Array.prototype.filter: visits the elements in order, keeps those accepted.
RECURSIVE arrayFilter(_, _)
arrayFilter(list, mode) ==
    IF list = <<>> THEN <<>>
    ELSE IF filterCallback(mode, Head(list))
         THEN <<Head(list)>> \o arrayFilter(Tail(list), mode)
         ELSE arrayFilter(Tail(list), mode)

\* A mutation of filteredRobots: the kept robots are listed newest first.
RECURSIVE Reverse(_)
Reverse(list) ==
    IF list = <<>> THEN <<>> ELSE Append(Reverse(Tail(list)), Head(list))
filteredRobots_Reversed(rs, mode) == Reverse(arrayFilter(rs, mode))

filteredRobots(rs, mode) == arrayFilter(rs, mode)

\* A mutation of getStatusColor: the battery is tested before the status.
getStatusColor_BatteryFirst(status, battery) ==
    IF battery < LowBattery THEN "orange"
    ELSE IF status = "Offline" THEN "red"
    ELSE "green"

getStatusColor(status, battery) ==
    IF status = "Offline" THEN "red"
    ELSE IF battery < LowBattery THEN "orange"
    ELSE "green"

\* The gate of the map view, lines 101-106.
locationGate(loc) ==
    /\ loc.isArray
    /\ Len(loc.elems) = 2
    /\ loc.elems[1] = "number"
    /\ loc.elems[2] = "number"

\* The markers of the map view: one per gated robot of the list, in order.
RECURSIVE mapMarkers(_)
mapMarkers(list) ==
    IF list = <<>> THEN <<>>
    ELSE IF locationGate(Head(list).location)
         THEN << [id |-> Head(list).id,
                  color |-> getStatusColor(Head(list).status, Head(list).battery)] >>
              \o mapMarkers(Tail(list))
         ELSE mapMarkers(Tail(list))

\* robot.location[0].toFixed(2), robot.location[1].toFixed(2), line 171: a
\* TypeError when location is null/undefined, or when location[0] or
\* location[1] is not a number (undefined or a string has no toFixed).
rowThrows(robot) ==
    \/ ~robot.location.isArray
    \/ Len(robot.location.elems) < 2
    \/ robot.location.elems[1] # "number"
    \/ robot.location.elems[2] # "number"

\* The rows of the table view: one per robot of the list, in order.
tableRows(list) ==
    [ i \in 1..Len(list) |->
        [id |-> list[i].id,
         color |-> getStatusColor(list[i].status, list[i].battery)] ]

\* The render of the component: it throws when the row of some robot of the
\* filtered list throws; otherwise it yields the markers and the rows.
render(rs, mode) ==
    LET list == filteredRobots(rs, mode) IN
    IF \E i \in 1..Len(list) : rowThrows(list[i])
    THEN [fault |-> TRUE,  markers |-> <<>>, rows |-> <<>>]
    ELSE [fault |-> FALSE, markers |-> mapMarkers(list), rows |-> tableRows(list)]

---------------------------------------------------------------------------
(* Update channel helpers *)

\* new WebSocket(url), line 33.
NewWebSocket ==
    [readyState |-> "CONNECTING", errorFired |-> FALSE, closeFired |-> FALSE,
     closeCalls |-> 0, scheduled |-> 0]

Live(s) == s.readyState \in {"CONNECTING", "OPEN"}

\* A timer registration: the socket whose handler made it, its delay, and (as
\* history) whether the view was still mounted when it was made.
Timer(s) == [by |-> s, delay |-> ReconnectDelay, whileMounted |-> phase = "mounted"]

\* setTimeout(connectWebSocket, 5000) in socket.onerror, line 43.
onerrorSchedule(tm, s) == Append(tm, Timer(s))

\* A mutation of oncloseSchedule: reconnection gives up after the second socket.
oncloseSchedule_MaxRetries(tm, s) == IF s < 2 THEN Append(tm, Timer(s)) ELSE tm

\* setTimeout(connectWebSocket, 5000) in socket.onclose, line 48.
oncloseSchedule(tm, s) == Append(tm, Timer(s))

\* socket.close(): starts the closing handshake of a live socket, and does
\* nothing on a socket that is already CLOSING or CLOSED.
socketClose(s) ==
    IF Live(s)
    THEN [s EXCEPT !.readyState = "CLOSING", !.closeCalls = @ + 1]
    ELSE s

\* The cleanup of the WebSocket effect, lines 54-56: closes the socket the
\* variable `socket` refers to, and leaves the timers alone.
cleanupSockets(socks, cur) ==
    IF cur # 0 THEN [socks EXCEPT ![cur] = socketClose(socks[cur])] ELSE socks

cleanupTimers(tm) == tm

\* JSON.parse / response.json(): throws on a text that is not JSON.
JSONparse(text) == [threw |-> text.kind # "json", value |-> text.value]

\* A mutation of setRobots: the new data is merged into the old state.
setRobots_Merge(prev, data) == prev \o data

\* setRobots(data): the new value of the robots cell replaces the old one.
\* The handlers call it whether or not the view is still mounted; the cell
\* then holds the value of the last call, which nothing displays any more.
setRobots(prev, data) == data

\* A mutation of snapshotInstall: the snapshot is dropped when a state is
\* already installed.
snapshotInstall_IfEmpty(prev, data) == IF prev = <<>> THEN data ELSE prev

\* setRobots(data) in fetchRobots, line 19.
snapshotInstall(prev, data) == setRobots(prev, data)

\* A mutation of pushInstall: a message is dropped until the snapshot is in.
pushInstall_AfterSnapshot(prev, data) == IF fetchPc = "done" THEN data ELSE prev

\* setRobots(updatedRobots) in socket.onmessage, line 37.
pushInstall(prev, data) == setRobots(prev, data)

\* History of the processed payloads.
Record(src) == IF \E i \in 1..Len(installOrder) : installOrder[i] = src
               THEN installOrder
               ELSE Append(installOrder, src)

\* React renders again after a state change of a mounted component; a render
\* that throws unmounts the tree, which runs the effect cleanup.
Rerender(newRobots, newFilter) ==
    IF phase = "mounted" /\ render(newRobots, newFilter).fault
    THEN /\ phase' = "unmounted"
         /\ renderFault' = TRUE
         /\ sockets' = cleanupSockets(sockets, socket)
         /\ timers' = cleanupTimers(timers)
    ELSE UNCHANGED <<phase, renderFault, sockets, timers>>

Idle == dispatching = 0

---------------------------------------------------------------------------
(* Initial state: the component has rendered once, its effects have not run *)

Init ==
    /\ phase = "initial"
    /\ renderFault = FALSE
    /\ robots = <<>>
    /\ filter = "all"
    /\ fetchPc = "idle"
    /\ response = NoResponse
    /\ fetchRequests = 0
    /\ sockets = <<>>
    /\ socket = 0
    /\ dispatching = 0
    /\ timers = <<>>
    /\ alerts = [fetch |-> 0, ws |-> 0]
    /\ uncaught = FALSE
    /\ lastPayload = <<>>
    /\ installOrder = <<>>

---------------------------------------------------------------------------
(* Actions *)

\* The two mount effects, lines 13-26 and 29-57: fetchRobots() runs up to its
\* first await, connectWebSocket() creates the first socket.
Mount ==
    /\ phase = "initial"
    /\ phase' = "mounted"
    /\ fetchPc' = "awaitFetch"
    /\ fetchRequests' = fetchRequests + 1
    /\ sockets' = Append(sockets, NewWebSocket)
    /\ socket' = Len(sockets) + 1
    /\ UNCHANGED <<renderFault, robots, filter, response, dispatching, timers,
                   alerts, uncaught, lastPayload, installOrder>>

\* A mutation of fetchCatch: the failed fetch is issued again.
fetchCatch_Retry ==
    /\ alerts' = [alerts EXCEPT !.fetch = @ + 1]
    /\ fetchPc' = "awaitFetch"
    /\ fetchRequests' = fetchRequests + 1
    /\ UNCHANGED <<phase, renderFault, robots, filter, sockets,
                   socket, dispatching, timers, uncaught, lastPayload, installOrder>>

\* The catch block of fetchRobots, lines 20-23.
fetchCatch ==
    /\ alerts' = [alerts EXCEPT !.fetch = @ + 1]
    /\ fetchPc' = "failed"
    /\ UNCHANGED <<phase, renderFault, robots, filter, fetchRequests, sockets,
                   socket, dispatching, timers, uncaught, lastPayload, installOrder>>

\* fetch() rejects (transport error), line 16.
FetchReject ==
    /\ Idle
    /\ fetchPc = "awaitFetch"
    /\ UNCHANGED response
    /\ fetchCatch

\* fetch() resolves with a response (its status line and headers), lines
\* 16-18: a non-ok status throws into the catch block, an ok status goes on to
\* await response.json().
FetchRespond(ok) ==
    /\ Idle
    /\ fetchPc = "awaitFetch"
    /\ IF ok
       THEN /\ fetchPc' = "awaitJson"
            /\ UNCHANGED <<response, phase, renderFault, robots, filter, fetchRequests,
                           sockets, socket, dispatching, timers, alerts, uncaught,
                           lastPayload, installOrder>>
       ELSE /\ UNCHANGED response
            /\ fetchCatch

\* response.json() settles after reading the body, lines 18-19: a parse
\* failure rejects inside the try block and is caught; otherwise the data is
\* installed.
ResponseJson(body) ==
    /\ Idle
    /\ fetchPc = "awaitJson"
    /\ response' = body
    /\ LET parsed == JSONparse(body) IN
       IF parsed.threw
       THEN fetchCatch
       ELSE /\ robots' = snapshotInstall(robots, parsed.value)
            /\ fetchPc' = "done"
            /\ lastPayload' = parsed.value
            /\ installOrder' = Record("snapshot")
            /\ Rerender(robots', filter)
            /\ UNCHANGED <<filter, fetchRequests, socket, dispatching,
                           alerts, uncaught>>

\* The connection of socket s is established.
SocketOpen(s) ==
    /\ Idle
    /\ s \in 1..Len(sockets)
    /\ sockets[s].readyState = "CONNECTING"
    /\ sockets' = [sockets EXCEPT ![s].readyState = "OPEN"]
    /\ UNCHANGED <<phase, renderFault, robots, filter, fetchPc, response,
                   fetchRequests, socket, dispatching, timers, alerts, uncaught,
                   lastPayload, installOrder>>

\* A mutation of parseFault: the handler catches the SyntaxError and alerts.
parseFault_Alerted ==
    /\ alerts' = [alerts EXCEPT !.ws = @ + 1]
    /\ UNCHANGED <<phase, renderFault, robots, filter, fetchPc, response,
                   fetchRequests, sockets, socket, dispatching, timers,
                   uncaught, lastPayload, installOrder>>

\* A mutation of parseFault: the fault also drops the installed state.
parseFault_ClearsState ==
    /\ uncaught' = TRUE
    /\ robots' = <<>>
    /\ UNCHANGED <<phase, renderFault, filter, fetchPc, response,
                   fetchRequests, sockets, socket, dispatching, timers,
                   alerts, lastPayload, installOrder>>

\* JSON.parse throws in socket.onmessage, line 36: nothing catches the
\* SyntaxError, the handler ends there and the fault is reported uncaught.
parseFault ==
    /\ uncaught' = TRUE
    /\ UNCHANGED <<phase, renderFault, robots, filter, fetchPc, response,
                   fetchRequests, sockets, socket, dispatching, timers,
                   alerts, lastPayload, installOrder>>

\* socket.onmessage, lines 35-38.
OnMessage(s, text) ==
    /\ Idle
    /\ s \in 1..Len(sockets)
    /\ sockets[s].readyState = "OPEN"
    /\ LET parsed == JSONparse(text) IN
       IF parsed.threw
       THEN parseFault
       ELSE /\ robots' = pushInstall(robots, parsed.value)
            /\ lastPayload' = parsed.value
            /\ installOrder' = Record("push")
            /\ Rerender(robots', filter)
            /\ UNCHANGED <<filter, fetchPc, response, fetchRequests, socket,
                           dispatching, alerts, uncaught>>

\* socket.onerror, lines 40-44.  The connection failed: the browser's close
\* task sets readyState to CLOSED, fires error and then fires close.
OnError(s) ==
    /\ Idle
    /\ s \in 1..Len(sockets)
    /\ sockets[s].readyState \in {"CONNECTING", "OPEN", "CLOSING"}
    /\ sockets' = [sockets EXCEPT ![s].readyState = "CLOSED",
                                  ![s].errorFired = TRUE,
                                  ![s].scheduled = @ + (Len(onerrorSchedule(timers, s)) - Len(timers))]
    /\ alerts' = [alerts EXCEPT !.ws = @ + 1]
    /\ timers' = onerrorSchedule(timers, s)
    /\ dispatching' = s
    /\ UNCHANGED <<phase, renderFault, robots, filter, fetchPc, response,
                   fetchRequests, socket, uncaught, lastPayload, installOrder>>

\* socket.onclose, lines 46-49.  Fired after an error event of the same close
\* task, or alone when an OPEN or CLOSING connection is closed.
OnClose(s) ==
    /\ s \in 1..Len(sockets)
    /\ \/ dispatching = s
       \/ Idle /\ sockets[s].readyState \in {"OPEN", "CLOSING"}
    /\ sockets' = [sockets EXCEPT ![s].readyState = "CLOSED",
                                  ![s].closeFired = TRUE,
                                  ![s].scheduled = @ + (Len(oncloseSchedule(timers, s)) - Len(timers))]
    /\ timers' = oncloseSchedule(timers, s)
    /\ dispatching' = 0
    /\ UNCHANGED <<phase, renderFault, robots, filter, fetchPc, response,
                   fetchRequests, socket, alerts, uncaught, lastPayload, installOrder>>

\* The oldest pending timer fires and runs connectWebSocket, lines 32-50.
TimerFire ==
    /\ Idle
    /\ timers # <<>>
    /\ Len(sockets) < MaxConns
    /\ timers' = Tail(timers)
    /\ sockets' = Append(sockets, NewWebSocket)
    /\ socket' = Len(sockets) + 1
    /\ UNCHANGED <<phase, renderFault, robots, filter, fetchPc, response,
                   fetchRequests, dispatching, alerts, uncaught, lastPayload,
                   installOrder>>

\* A filter button is clicked, lines 91-94.
SetFilter(mode) ==
    /\ Idle
    /\ phase = "mounted"
    /\ filter' = mode
    /\ Rerender(robots, mode)
    /\ UNCHANGED <<robots, fetchPc, response, fetchRequests, socket, dispatching,
                   alerts, uncaught, lastPayload, installOrder>>

\* The view is torn down: the effect cleanup runs, lines 54-56.
Unmount ==
    /\ Idle
    /\ phase = "mounted"
    /\ phase' = "unmounted"
    /\ sockets' = cleanupSockets(sockets, socket)
    /\ timers' = cleanupTimers(timers)
    /\ UNCHANGED <<renderFault, robots, filter, fetchPc, response, fetchRequests,
                   socket, dispatching, alerts, uncaught, lastPayload, installOrder>>

Next ==
    \/ Mount
    \/ FetchReject
    \/ \E ok \in BOOLEAN : FetchRespond(ok)
    \/ \E body \in Texts : ResponseJson(body)
    \/ \E s \in 1..MaxConns : SocketOpen(s)
    \/ \E s \in 1..MaxConns, text \in Texts : OnMessage(s, text)
    \/ \E s \in 1..MaxConns : OnError(s)
    \/ \E s \in 1..MaxConns : OnClose(s)
    \/ TimerFire
    \/ \E mode \in FilterModes : SetFilter(mode)
    \/ Unmount

Spec == Init /\ [][Next]_vars

---------------------------------------------------------------------------
(* Claims about teardown and reconnection *)

Sockets == 1..Len(sockets)

\* C1: if the view is torn down while a reconnect timer is pending, that
\* timer is cancelled: a timer registered while the view was mounted never
\* creates a connection after the teardown.
C1_Claim ==
    [][ (phase = "unmounted" /\ timers # <<>> /\ Head(timers).whileMounted)
            => Len(sockets') = Len(sockets) ]_vars

\* C2: the teardown closes every live connection exactly once, and after the
\* teardown no reconnect timer is registered any more (the close event the
\* teardown causes schedules nothing).
C2_Claim ==
    [][ /\ (phase = "mounted" /\ phase' = "unmounted")
              => \A s \in Sockets :
                    Live(sockets[s]) => /\ sockets'[s].readyState = "CLOSING"
                                        /\ sockets'[s].closeCalls = 1
        /\ (phase = "unmounted") => Len(timers') <= Len(timers) ]_vars

\* C3: while the view is mounted, every connection registers at most one
\* reconnect timer over its lifetime, exactly one once its close event has
\* fired (also after error-then-close), and every timer has the 5000 ms delay.
C3_Claim ==
    phase = "mounted" =>
        /\ \A s \in Sockets :
              /\ sockets[s].scheduled <= 1
              /\ sockets[s].closeFired => sockets[s].scheduled = 1
        /\ \A t \in 1..Len(timers) : timers[t].delay = 5000

---------------------------------------------------------------------------
(* Claims about state replacement and the snapshot loader *)

\* C4: FleetState is a complete replacement with last write wins: it equals
\* the payload of the most recently processed successful snapshot or
\* well-formed push message, and it is empty while none was processed.
C4_LastWriteWins ==
    /\ robots = lastPayload
    /\ installOrder = <<>> => robots = <<>>

\* A push message carrying 2 robots was processed after the snapshot, whose
\* payloads hold robots of other ids: exactly those 2 robots are left.
C4_Witness ==
    /\ installOrder = <<"snapshot", "push">>
    /\ Len(robots) = 2
    /\ response.kind = "json" /\ Len(response.value) = 1
    /\ \A i \in 1..2 : robots[i].id # response.value[1].id

\* C5 as stated: the first install is the snapshot's, push messages are only
\* installed after it, and the snapshot never overwrites a push message.
C5_Claim ==
    installOrder \in { <<>>, <<"snapshot">>, <<"snapshot", "push">> }

\* C5 as amended: FleetState stays empty until the first payload is processed,
\* which is the snapshot's or a push message's, whichever arrives first; it
\* changes only by installing a snapshot or push payload; and the snapshot,
\* when it completes, is installed over whatever the state then is.
C5_ArrivalOrder ==
    /\ [](installOrder = <<>> => robots = <<>>)
    /\ [][ (fetchPc = "awaitJson" /\ fetchPc' = "done")
              => robots' = response'.value ]_vars
    /\ [][ robots' # robots
              => \/ fetchPc = "awaitJson" /\ fetchPc' = "done"
                 \/ /\ fetchPc' = fetchPc
                    /\ \E s \in Sockets : sockets[s].readyState = "OPEN" ]_vars

\* The snapshot completed after a push message and replaced its state.
C5_Witness ==
    /\ installOrder = <<"push", "snapshot">>
    /\ fetchPc = "done"
    /\ robots = response.value
    /\ robots # <<>>

\* C6: while the view is mounted there is always a live connection or a
\* pending reconnect timer; every error and close event registers a timer,
\* and a timer is only consumed by creating a brand-new CONNECTING socket,
\* leaving the old ones as they are.
C6_Unbounded ==
    /\ [](phase = "mounted"
            => \/ \E s \in Sockets : Live(sockets[s])
               \/ timers # <<>>)
    /\ [][ \A s \in Sockets :
              (sockets'[s].errorFired # sockets[s].errorFired
                 \/ sockets'[s].closeFired # sockets[s].closeFired)
              => Len(timers') = Len(timers) + 1 ]_vars
    /\ [][ Len(timers') < Len(timers)
              => /\ Len(sockets') = Len(sockets) + 1
                 /\ sockets'[Len(sockets')] = NewWebSocket
                 /\ \A s \in Sockets : sockets'[s] = sockets[s] ]_vars

\* The third socket was created by a timer after the second one had closed.
C6_Witness ==
    /\ phase = "mounted"
    /\ Len(sockets) >= 3
    /\ sockets[2].closeFired
    /\ sockets[3].readyState = "CONNECTING"

\* C7: one snapshot request per view lifetime; a failure issues no further
\* request, raises exactly one alert and leaves FleetState as it was (empty
\* when no push message has been installed).
C7_OneShot ==
    /\ [](fetchRequests = IF phase = "initial" THEN 0 ELSE 1)
    /\ [](alerts.fetch = IF fetchPc = "failed" THEN 1 ELSE 0)
    /\ [](fetchPc = "failed" /\ installOrder = <<>> => robots = <<>>)
    /\ [][ (fetchPc # "failed" /\ fetchPc' = "failed") => robots' = robots ]_vars
    /\ [][ fetchPc = "failed" => fetchPc' = "failed" ]_vars

\* The fetch failed on its status or transport after a push message was installed.
C7_Witness ==
    /\ fetchPc = "failed"
    /\ response = NoResponse
    /\ alerts.fetch = 1
    /\ robots # <<>>

\* C8 as stated: on either endpoint a malformed payload ends in an uncaught
\* fault and raises no alert.
C8_Claim ==
    /\ [][ (fetchPc = "awaitJson" /\ response'.kind # "json" /\ fetchPc' # fetchPc)
              => (uncaught' /\ alerts' = alerts) ]_vars
    /\ [][ uncaught' # uncaught => alerts' = alerts ]_vars

\* C8 as amended: a malformed push message ends in an uncaught fault and
\* raises no alert (alerts of the channel come from error events only); a
\* malformed snapshot body is caught by the loader's catch block, which
\* raises the fetch-failure alert and leaves no uncaught fault.
C8_PushOnly ==
    /\ [][ (fetchPc = "awaitJson" /\ response'.kind # "json" /\ fetchPc' # fetchPc)
              => /\ fetchPc' = "failed"
                 /\ alerts'.fetch = alerts.fetch + 1
                 /\ uncaught' = uncaught
                 /\ robots' = robots ]_vars
    /\ [][ uncaught' # uncaught
              => /\ uncaught'
                 /\ alerts' = alerts
                 /\ fetchPc' = fetchPc
                 /\ \E s \in Sockets : sockets[s].readyState = "OPEN" ]_vars
    /\ [][ (\E s \in Sockets : OnMessage(s, Malformed))
              => uncaught' ]_vars
    /\ [](alerts.ws = Cardinality({ s \in Sockets : sockets[s].errorFired }))

\* Both endpoints have delivered a malformed payload.
C8_Witness ==
    /\ uncaught
    /\ fetchPc = "failed"
    /\ response = Malformed
    /\ alerts.fetch = 1

---------------------------------------------------------------------------
(* Claims about the presentation *)

\* C9: rendering never faults, and while the view is mounted the table shows
\* one row per robot of the filtered list, invalid locations included, while
\* the map shows exactly the robots that pass the location gate.
C9_Claim ==
    /\ ~renderFault
    /\ phase = "mounted" =>
          LET list == filteredRobots(robots, filter)
              view == render(robots, filter)
          IN  /\ ~view.fault
              /\ Len(view.rows) = Len(list)
              /\ \A i \in 1..Len(list) : view.rows[i].id = list[i].id
              /\ Len(view.markers) =
                    Cardinality({ i \in 1..Len(list) : locationGate(list[i].location) })

---------------------------------------------------------------------------
(* The presentation functions on drawn inputs: the view is mounted with a  *)
(* fleet installed by the snapshot, and the filter buttons are clicked.    *)

ViewStatuses  == {"Online", "Offline", "online"}
ViewBatteries == {LowBattery - 1, LowBattery}
ViewLocations == {LocOk, LocLong}
ViewRobots ==
    { Robot("r1", st, b, l) : st \in ViewStatuses, b \in ViewBatteries, l \in ViewLocations }

\* Every fleet of at most MaxLen robots.
Fleets == UNION { [1..n -> ViewRobots] : n \in 0..MaxLen }

\* The four modes of the buttons and one value no button sets; the view
\* starts at "all" or at that value, the buttons set the other modes.
AnyModes == FilterModes \cup {"charging"}

InitView ==
    /\ phase = "mounted"
    /\ renderFault = FALSE
    /\ robots \in Fleets
    /\ filter \in AnyModes \ (FilterModes \ {"all"})
    /\ fetchPc = "done"
    /\ response = Json(robots)
    /\ fetchRequests = 1
    /\ sockets = << [NewWebSocket EXCEPT !.readyState = "OPEN"] >>
    /\ socket = 1
    /\ dispatching = 0
    /\ timers = <<>>
    /\ alerts = [fetch |-> 0, ws |-> 0]
    /\ uncaught = FALSE
    /\ lastPayload = robots
    /\ installOrder = <<"snapshot">>

NextView == \E mode \in FilterModes : SetFilter(mode)

SpecView == InitView /\ [][NextView]_vars

\* What each mode is said to keep.
Keeps(mode, robot) ==
    CASE mode = "all"         -> TRUE
      [] mode = "online"      -> robot.status = "Online"
      [] mode = "offline"     -> robot.status = "Offline"
      [] mode = "low-battery" -> robot.battery < 20
      [] OTHER                -> TRUE

\* C10: the derived list is the order-preserving subsequence of FleetState
\* made of the robots the mode keeps: all and unknown modes keep every robot,
\* online / offline those of that exact status, low-battery those of battery
\* strictly below 20 whatever their status.
C10_Subsequence ==
    LET list == filteredRobots(robots, filter)
        kept == { i \in 1..Len(robots) : Keeps(filter, robots[i]) }
    IN  /\ Len(list) = Cardinality(kept)
        /\ \E pos \in [1..Len(list) -> kept] :
              /\ \A j, k \in 1..Len(list) : j < k => pos[j] < pos[k]
              /\ \A k \in 1..Len(list) : list[k] = robots[pos[k]]

\* The low-battery button was clicked on a fleet whose first robot is at the
\* threshold and whose second is an offline robot below it.
C10_Witness ==
    /\ filter = "low-battery"
    /\ Len(robots) = 2
    /\ robots[1].battery = 20
    /\ robots[2].battery = 19 /\ robots[2].status = "Offline"
    /\ filteredRobots(robots, filter) = << robots[2] >>

\* What the table displays: the rows of the last render while the view is
\* mounted, nothing once the tree is unmounted.
displayedRows == IF phase = "mounted" THEN render(robots, filter).rows ELSE <<>>

\* C11: unless the view was torn down on purpose, the number of displayed
\* table rows equals the size of the filtered list, which is at most the
\* size of FleetState.
C11_Claim ==
    (phase = "mounted" \/ renderFault) =>
        /\ Len(displayedRows) = Len(filteredRobots(robots, filter))
        /\ Len(filteredRobots(robots, filter)) <= Len(robots)

\* The color the precedence status-then-battery gives.
ExpectedColor(robot) ==
    CASE robot.status = "Offline"                       -> "red"
      [] robot.status # "Offline" /\ robot.battery < 20 -> "orange"
      [] OTHER                                          -> "green"

\* C12: every table row has the color of the precedence status-then-battery
\* (red for Offline whatever the battery, else orange below 20, else green),
\* and the markers are, in order, the rows of the robots that pass the
\* location gate, with the same id and color.
C12_ColorPrecedence ==
    LET list  == filteredRobots(robots, filter)
        view  == render(robots, filter)
        gated == { i \in 1..Len(list) : locationGate(list[i].location) }
    IN  /\ \A i \in 1..Len(list) : view.rows[i].color = ExpectedColor(list[i])
        /\ Len(view.markers) = Cardinality(gated)
        /\ \E pos \in [1..Len(view.markers) -> gated] :
              /\ \A j, k \in 1..Len(view.markers) : j < k => pos[j] < pos[k]
              /\ \A k \in 1..Len(view.markers) : view.markers[k] = view.rows[pos[k]]

\* An offline robot below the threshold is shown red in the row and the marker.
C12_Witness ==
    /\ filter = "low-battery"
    /\ Len(robots) >= 1
    /\ robots[1] = Robot("r1", "Offline", 19, LocOk)
    /\ render(robots, filter).rows[1].color = "red"
    /\ render(robots, filter).markers[1].color = "red"

\* C13: FilterMode starts at "all" and only a filter button changes it (no
\* fetch, socket, timer or teardown step does), and a filter button changes
\* neither FleetState nor the connection state.
C13_Claim ==
    /\ [](phase = "initial" => filter = "all")
    /\ [][ filter' # filter
              => /\ phase = "mounted" /\ filter' \in FilterModes
                 /\ fetchPc' = fetchPc /\ alerts' = alerts /\ uncaught' = uncaught ]_vars
    /\ [][ (\E mode \in FilterModes : SetFilter(mode))
              => /\ robots' = robots
                 /\ sockets' = sockets /\ socket' = socket /\ timers' = timers ]_vars

\* C14: under low-battery, the snapshot's r1 (Online, 15) is shown orange, the
\* pushed r1 (Offline, 15) is shown red, and for every robot of FleetState
\* the low-battery filter decides the same whatever the status is.
C14_EndToEnd ==
    /\ (filter = "low-battery" /\ robots = << Robot("r1", "Online", 15, LocOk) >>)
          => render(robots, filter).rows = << [id |-> "r1", color |-> "orange"] >>
    /\ (filter = "low-battery" /\ robots = << Robot("r1", "Offline", 15, LocOk) >>)
          => render(robots, filter).rows = << [id |-> "r1", color |-> "red"] >>
    /\ \A i \in 1..Len(robots), st \in {"Online", "Offline"} :
          /\ filteredRobots(<< [robots[i] EXCEPT !.status = st] >>, "low-battery")
                = IF robots[i].battery < 20
                  THEN << [robots[i] EXCEPT !.status = st] >> ELSE <<>>

\* The snapshot installed r1 Online, a push message then replaced it by r1
\* Offline, and the low-battery view shows it.
C14_Witness ==
    /\ phase = "mounted"
    /\ filter = "low-battery"
    /\ installOrder = <<"snapshot", "push">>
    /\ response = Json(<< Robot("r1", "Online", 15, LocOk) >>)
    /\ robots = << Robot("r1", "Offline", 15, LocOk) >>
    /\ displayedRows = << [id |-> "r1", color |-> "red"] >>

\* C15: applying a mode's filter to its own output returns the same list.
C15_Idempotent ==
    filteredRobots(filteredRobots(robots, filter), filter)
        = filteredRobots(robots, filter)

\* A mode that drops one of two robots is selected.
C15_Witness ==
    /\ filter = "online"
    /\ Len(robots) = 2
    /\ robots[1].status # robots[2].status
    /\ Len(filteredRobots(robots, filter)) = 1

---------------------------------------------------------------------------
(* Claims about the channel's resources and the two effects *)

\* C16: while the view is mounted, at most one connection is live and at
\* most one reconnect timer is pending.
C16_Claim ==
    phase = "mounted" =>
        /\ Cardinality({ s \in Sockets : Live(sockets[s]) }) <= 1
        /\ Len(timers) <= 1

C18_FaultOnly ==
    /\ [][ (uncaught' # uncaught \/ \E s \in Sockets : OnMessage(s, Malformed))
              => /\ uncaught'
                 /\ UNCHANGED <<phase, renderFault, robots, filter, fetchPc,
                                response, fetchRequests, sockets, socket,
                                dispatching, timers, alerts, lastPayload,
                                installOrder>> ]_vars
    /\ [](\A s \in Sockets :
            (uncaught /\ Idle /\ sockets[s].readyState = "OPEN")
               => \A p \in Payloads : ENABLED OnMessage(s, Json(p)))
    /\ [](uncaught /\ installOrder # <<>> => robots = lastPayload)

\* After a malformed message, the first socket is still OPEN and holds a
\* state a push message installed.
C18_Witness ==
    /\ uncaught
    /\ Len(sockets) = 1
    /\ sockets[1].readyState = "OPEN"
    /\ timers = <<>>
    /\ installOrder = <<"push">>
    /\ robots # <<>>

\* C19: the first connection exists as soon as the effects have run,
\* whatever the state of the fetch; an OPEN socket accepts every well-formed
\* message whatever the state of the fetch; and while the fetch is pending or
\* has failed, FleetState is what the last push message carried.
C19_Independent ==
    /\ phase # "initial" => Len(sockets) >= 1
    /\ \A s \in Sockets :
          (Idle /\ sockets[s].readyState = "OPEN")
             => \A p \in Payloads : ENABLED OnMessage(s, Json(p))
    /\ (fetchPc \in {"awaitFetch", "awaitJson", "failed"})
          => /\ installOrder \in { <<>>, <<"push">> }
             /\ robots = IF installOrder = <<>> THEN <<>> ELSE lastPayload

\* A push message was installed while the fetch is still pending.
C19_Witness ==
    /\ fetchPc = "awaitFetch"
    /\ installOrder = <<"push">>
    /\ robots # <<>>
    /\ robots = lastPayload

\* C20: the channel's alerts are exactly one per error event (a close event
\* raises none), and none is raised once the view is torn down.
C20_Claim ==
    /\ [](alerts.ws = Cardinality({ s \in Sockets : sockets[s].errorFired }))
    /\ [][ phase = "unmounted" => alerts'.ws = alerts.ws ]_vars

=============================================================================
